---- MODULE Spec2Model ----
(***************************************************************************)
(* BooleanSet (src/src/utils/BooleanSet.js): an infinite array of booleans *)
(* kept as a list of ranges plus an inversion flag.  The model follows one *)
(* instance from its construction through calls of its public methods.     *)
(* Every call is recorded with its arguments and its outcome (the value    *)
(* returned or the error thrown), together with the instance's fields as   *)
(* they were before the call.                                              *)
(***************************************************************************)
EXTENDS Integers, Sequences, FiniteSets, TLC

\* Largest index the model passes to a method or quantifies over.
MaxIdx == 1

-----------------------------------------------------------------------------
(* JavaScript values.  Every value is a record of the same shape so that   *)
(* values of different JavaScript types can be compared.                   *)

Undefined == [t |-> "undefined", b |-> FALSE, n |-> 0]
Null == [t |-> "null", b |-> FALSE, n |-> 0]
Bool(x) == [t |-> "boolean", b |-> x, n |-> 0]
Num(k) == [t |-> "number", b |-> FALSE, n |-> k]
\* a number that is not an integer (1.5): typeof "number", GenUtils.isInt false
Frac == [t |-> "fraction", b |-> FALSE, n |-> 1]
\* the number Infinity, the default end of a range
Infinity == [t |-> "infinity", b |-> FALSE, n |-> 0]
\* references to the object this.state, to the instance itself, and to the
\* instance copy() constructs
StateRef == [t |-> "object", b |-> FALSE, n |-> 0]
ThisRef == [t |-> "object", b |-> FALSE, n |-> 1]
CopyRef == [t |-> "object", b |-> FALSE, n |-> 2]
\* a reference to the instance new BooleanSet(state) constructs
NewRef == [t |-> "object", b |-> FALSE, n |-> 3]

\* typeof v === "boolean"
IsBoolean(v) == v.t = "boolean"

\* ToBoolean(v), as the conditional operator and ! apply it
Truthy(v) ==
  CASE v.t = "boolean" -> v.b
    [] v.t = "number" -> v.n # 0
    [] v.t = "fraction" -> TRUE
    [] v.t = "infinity" -> TRUE
    [] v.t = "object" -> TRUE
    [] OTHER -> FALSE

\* !v
Not(v) == Bool(~Truthy(v))

\* idx === undefined || idx === null
IsNullish(v) == v.t \in {"undefined", "null"}

\* GenUtils.isInt(v): v is a number with no fractional part
isInt(v) == v.t = "number"

\* GenUtils.isInt(idx) && idx >= 0
IsIndex(v) == isInt(v) /\ v.n >= 0

\* v >= 0, with v converted to a number (undefined and objects give NaN)
Geq0(v) ==
  CASE v.t = "number" -> v.n >= 0
    [] v.t \in {"fraction", "infinity", "boolean", "null"} -> TRUE
    [] OTHER -> FALSE

-----------------------------------------------------------------------------
(* Outcomes of a call.                                                     *)

Return(v) == [kind |-> "return", value |-> v, error |-> "none"]
Throw(e) == [kind |-> "throw", value |-> Undefined, error |-> e]

AssertionError == Throw("AssertionError")
NotImplemented == Throw("Error: Not implemented")
ReferenceError == Throw("ReferenceError")

-----------------------------------------------------------------------------
(* Arguments the model passes.                                             *)

Indexes == 0..MaxIdx
Vals == {Bool(TRUE), Bool(FALSE), Num(1)}
IdxArgs == {Undefined, Null, Num(-1), Frac} \cup {Num(i) : i \in Indexes}
\* <<start, end>>: the intervals within the indexes, the defaults
\* (undefined), and one pair with start > end
RangeArgs ==
  {<<Num(p[1]), Num(p[2])>> : p \in {q \in Indexes \X Indexes : q[1] <= q[2]}}
  \cup {<<Undefined, Undefined>>, <<Num(0), Undefined>>, <<Num(MaxIdx), Num(0)>>}

\* a range {start, end}
Range(a, b) == [start |-> a, end |-> b]

\* a state object {inverted, ranges} handed to the constructor; no object
StateObject(inv, r) == [exists |-> TRUE, inverted |-> inv, ranges |-> r]
NoGiven == [exists |-> FALSE, inverted |-> Undefined, ranges |-> <<>>]

\* state objects handed to the constructor: two well-formed ones, then
\* overlapping and unsorted ranges, adjacent ranges left unmerged, and an
\* unbounded range that is not the last
StateArgs ==
  { StateObject(Bool(FALSE), <<>>),
    StateObject(Bool(TRUE), <<Range(Num(0), Num(MaxIdx))>>),
    StateObject(Bool(FALSE), <<Range(Num(0), Num(1)), Range(Num(0), Num(0))>>),
    StateObject(Bool(FALSE), <<Range(Num(0), Num(0)), Range(Num(1), Num(1))>>),
    StateObject(Bool(TRUE), <<Range(Num(0), Infinity), Range(Num(1), Num(1))>>) }

VARIABLES
  ranges,        \* this.state.ranges: sequence of [start, end], each a value
  stateInverted, \* this.state.inverted (Undefined when the property is absent)
  thisInverted,  \* this.inverted, a property of the instance itself
  call,          \* the last call: method and arguments
  outcome,       \* what the last call returned or threw
  pre,           \* the fields before the last call
  prevCall,      \* the call before the last one
  prevOutcome,   \* its outcome
  prePrev,       \* the fields before the call before the last one
  copyOf,        \* the instance the last successful copy() constructed
  given          \* the state object the last call handed to the constructor

vars == <<ranges, stateInverted, thisInverted, call, outcome, pre,
          prevCall, prevOutcome, prePrev, copyOf, given>>

Call(op, val, idx, start, end) ==
  [op |-> op, val |-> val, idx |-> idx, start |-> start, end |-> end]

Fields == [ranges |-> ranges, stateInverted |-> stateInverted,
           thisInverted |-> thisInverted]

\* this.flipped: no method assigns it
flipped == Undefined

-----------------------------------------------------------------------------
(* The methods.  Each is an operator from the fields f of the instance and *)
(* the arguments to the fields after the call and the call's outcome.      *)

\* no instance constructed
NoInstance == [exists |-> FALSE, ranges |-> <<>>, stateInverted |-> Undefined,
               thisInverted |-> Undefined]

Result(f, o) == [fields |-> f, outcome |-> o, made |-> NoInstance]

\* set(val, idx) with the single-index branch written as a bare push of
\* {start: idx, end: idx}, with no merge and no regard for val
setPushesIndex(f, val, idx) ==
  IF ~IsBoolean(val) THEN Result(f, AssertionError)
  ELSE IF IsNullish(idx) THEN
    Result([ranges |-> <<>>,
            stateInverted |-> Undefined,
            thisInverted |-> IF val.b THEN Bool(TRUE) ELSE f.thisInverted],
           Return(Undefined))
  ELSE IF ~IsIndex(idx) THEN Result(f, AssertionError)
  ELSE Result([f EXCEPT !.ranges = Append(@, [start |-> idx, end |-> idx])],
              Return(ThisRef))

\* set(val, idx) with `if (val) this.inverted = true` moved up, ahead of
\* the test of idx and so ahead of the errors of the single-index branch
setAssignsFirst(f, val, idx) ==
  IF ~IsBoolean(val) THEN Result(f, AssertionError)
  ELSE LET g == [f EXCEPT !.thisInverted = IF val.b THEN Bool(TRUE) ELSE @]
       IN IF IsNullish(idx) THEN
            Result([ranges |-> <<>>,
                    stateInverted |-> Undefined,
                    thisInverted |-> g.thisInverted],
                   Return(Undefined))
          ELSE IF ~IsIndex(idx) THEN Result(g, AssertionError)
          ELSE Result(g, NotImplemented)

\* set(val, idx) without the assert on the type of val
setUnchecked(f, val, idx) ==
  IF IsNullish(idx) THEN
    Result([ranges |-> <<>>,
            stateInverted |-> Undefined,
            thisInverted |-> IF Truthy(val) THEN Bool(TRUE) ELSE f.thisInverted],
           Return(Undefined))
  ELSE IF ~IsIndex(idx) THEN Result(f, AssertionError)
  ELSE Result(f, NotImplemented)

\* set(val, idx)
set(f, val, idx) ==
  IF ~IsBoolean(val) THEN Result(f, AssertionError)
  ELSE IF IsNullish(idx) THEN
    \* delete this.state.inverted; this.state.ranges.length = 0;
    \* if (val) this.inverted = true; return;
    Result([ranges |-> <<>>,
            stateInverted |-> Undefined,
            thisInverted |-> IF val.b THEN Bool(TRUE) ELSE f.thisInverted],
           Return(Undefined))
  ELSE IF ~IsIndex(idx) THEN Result(f, AssertionError)
  ELSE Result(f, NotImplemented)

\* clear(): return this.set(false)
clear(f) == set(f, Bool(FALSE), Undefined)

\* setRange(val, start, end)
setRange(f, val, start, end) == Result(f, NotImplemented)

\* flip(idx)
flip(f, idx) == Result(f, NotImplemented)

\* flipRange(start, end)
flipRange(f, start, end) == Result(f, NotImplemented)

\* get(idx) that first stores the default false into a state lacking
\* inverted
getLazyDefault(f, idx) ==
  IF ~IsIndex(idx) THEN Result(f, AssertionError)
  ELSE IF Len(f.ranges) > 0 THEN Result(f, ReferenceError)
  ELSE LET g == [f EXCEPT !.stateInverted =
                            IF @ = Undefined THEN Bool(FALSE) ELSE @]
       IN Result(g, Return(g.stateInverted))

\* get(idx): with a range to visit, the first test of the loop reads the
\* undeclared identifier `index`
get(f, idx) ==
  IF ~IsIndex(idx) THEN Result(f, AssertionError)
  ELSE IF Len(f.ranges) > 0 THEN Result(f, ReferenceError)
  ELSE LET inRange == FALSE  \* no range to visit: the loop body never runs
       IN Result(f, Return(IF inRange THEN Not(f.stateInverted)
                                      ELSE f.stateInverted))

\* getFirst(val, start = 0, end)
getFirst(f, val, start, end) == Result(f, NotImplemented)

\* getLast(val, start, end)
getLast(f, val, start, end) == Result(f, NotImplemented)

\* allSet(val, start, end): this.getFirst(!val, start, end) === null
allSet(f, val, start, end) ==
  IF ~IsBoolean(val) THEN Result(f, AssertionError)
  ELSE LET r == getFirst(f, Not(val), start, end)
       IN IF r.outcome.kind = "throw" THEN r
          ELSE Result(r.fields, Return(Bool(r.outcome.value = Null)))

\* anySet(val, start = 0, end): this.getFirst(val, start, end) !== null
anySet(f, val, start, end) ==
  IF ~IsBoolean(val) THEN Result(f, AssertionError)
  ELSE LET r == getFirst(f, val, start, end)
       IN IF r.outcome.kind = "throw" THEN r
          ELSE Result(r.fields, Return(Bool(r.outcome.value # Null)))

\* length(): this.flipped ? getLast(false) : getLast(true), where getLast
\* is an identifier no scope declares
length(f) ==
  IF Truthy(flipped) THEN Result(f, ReferenceError)  \* getLast(false)
  ELSE Result(f, ReferenceError)                     \* getLast(true)

\* toArray(start = 0, end = this.length())
toArray(f, start, end) ==
  IF end = Undefined /\ length(f).outcome.kind = "throw" THEN length(f)
  ELSE Result(f, NotImplemented)

\* getState(): return this.state
getState(f) == Result(f, Return(StateRef))

\* the object getState() returns, by its properties
stateOf(f) == [ranges |-> f.ranges, inverted |-> f.stateInverted]

\* GenUtils.copyProperties(obj): a new object with copies of obj's
\* properties; a property obj lacks is lacking in the copy
copyProperties(st) ==
  [ranges |-> [k \in 1..Len(st.ranges) |->
                 [start |-> st.ranges[k].start, end |-> st.ranges[k].end]],
   inverted |-> st.inverted]

\* BooleanSet._validateState(state): TRUE iff every assert passes
validateState(st) ==
  /\ IsBoolean(st.inverted)
  /\ \A k \in 1..Len(st.ranges) :
        Geq0(st.ranges[k].start) /\ Geq0(st.ranges[k].end)

\* copy(): new BooleanSet(this), whose constructor calls
\* this._setState(GenUtils.copyProperties(stateOrObj.getState()))
copy(f) ==
  LET st == copyProperties(stateOf(f))
  IN IF ~validateState(st) THEN Result(f, AssertionError)
     ELSE [fields |-> f,
           outcome |-> Return(CopyRef),
           made |-> [exists |-> TRUE, ranges |-> st.ranges,
                     stateInverted |-> st.inverted,
                     thisInverted |-> Undefined]]

\* new BooleanSet(stateOrObj) reading its parameter, as the comment of the
\* branch describes: this._setState(stateOrObj)
newFromParameter(f, stateOrObj) ==
  IF ~validateState(stateOrObj) THEN Result(f, AssertionError)
  ELSE [fields |-> f,
        outcome |-> Return(NewRef),
        made |-> [exists |-> TRUE, ranges |-> stateOrObj.ranges,
                  stateInverted |-> stateOrObj.inverted,
                  thisInverted |-> Undefined]]

\* new BooleanSet(stateOrObj) with a state object: the branch calls
\* this._setState(state), and state is an identifier no scope declares
newFromState(f, stateOrObj) == Result(f, ReferenceError)

-----------------------------------------------------------------------------
(* The state machine: a call applies a method to the instance and is       *)
(* recorded.                                                               *)

ApplyGiven(c, r, g) ==
  /\ ranges' = r.fields.ranges
  /\ stateInverted' = r.fields.stateInverted
  /\ thisInverted' = r.fields.thisInverted
  /\ call' = c
  /\ outcome' = r.outcome
  /\ pre' = Fields
  /\ prevCall' = call
  /\ prevOutcome' = outcome
  /\ prePrev' = pre
  /\ copyOf' = IF r.made.exists THEN r.made ELSE copyOf
  /\ given' = g

Apply(c, r) == ApplyGiven(c, r, NoGiven)

\* new BooleanSet(): this.state = {}; this.state.ranges = []
Init ==
  /\ ranges = <<>>
  /\ stateInverted = Undefined
  /\ thisInverted = Undefined
  /\ call = Call("new", Undefined, Undefined, Undefined, Undefined)
  /\ outcome = Return(ThisRef)
  /\ pre = [ranges |-> <<>>, stateInverted |-> Undefined,
            thisInverted |-> Undefined]
  /\ prevCall = Call("none", Undefined, Undefined, Undefined, Undefined)
  /\ prevOutcome = Return(Undefined)
  /\ prePrev = pre
  /\ copyOf = NoInstance
  /\ given = NoGiven

Set ==
  \E val \in Vals, idx \in IdxArgs :
    Apply(Call("set", val, idx, Undefined, Undefined), set(Fields, val, idx))

Clear ==
  Apply(Call("clear", Undefined, Undefined, Undefined, Undefined),
        clear(Fields))

SetRange ==
  \E val \in Vals, se \in RangeArgs :
    Apply(Call("setRange", val, Undefined, se[1], se[2]),
          setRange(Fields, val, se[1], se[2]))

Flip ==
  \E idx \in IdxArgs :
    Apply(Call("flip", Undefined, idx, Undefined, Undefined),
          flip(Fields, idx))

FlipRange ==
  \E se \in RangeArgs :
    Apply(Call("flipRange", Undefined, Undefined, se[1], se[2]),
          flipRange(Fields, se[1], se[2]))

Get ==
  \E idx \in IdxArgs :
    Apply(Call("get", Undefined, idx, Undefined, Undefined),
          get(Fields, idx))

GetFirst ==
  \E val \in Vals, se \in RangeArgs :
    Apply(Call("getFirst", val, Undefined, se[1], se[2]),
          getFirst(Fields, val, se[1], se[2]))

GetLast ==
  \E val \in Vals, se \in RangeArgs :
    Apply(Call("getLast", val, Undefined, se[1], se[2]),
          getLast(Fields, val, se[1], se[2]))

AllSet ==
  \E val \in Vals, se \in RangeArgs :
    Apply(Call("allSet", val, Undefined, se[1], se[2]),
          allSet(Fields, val, se[1], se[2]))

AnySet ==
  \E val \in Vals, se \in RangeArgs :
    Apply(Call("anySet", val, Undefined, se[1], se[2]),
          anySet(Fields, val, se[1], se[2]))

ToArray ==
  \E se \in RangeArgs :
    Apply(Call("toArray", Undefined, Undefined, se[1], se[2]),
          toArray(Fields, se[1], se[2]))

Length ==
  Apply(Call("length", Undefined, Undefined, Undefined, Undefined),
        length(Fields))

GetState ==
  Apply(Call("getState", Undefined, Undefined, Undefined, Undefined),
        getState(Fields))

Copy ==
  Apply(Call("copy", Undefined, Undefined, Undefined, Undefined),
        copy(Fields))

NewFromState ==
  \E st \in StateArgs :
    ApplyGiven(Call("newFromState", Undefined, Undefined, Undefined, Undefined),
               newFromState(Fields, st), st)

Next ==
  \/ Set
  \/ Clear
  \/ SetRange
  \/ Flip
  \/ FlipRange
  \/ Get
  \/ GetFirst
  \/ GetLast
  \/ AllSet
  \/ AnySet
  \/ ToArray
  \/ Length
  \/ GetState
  \/ Copy
  \/ NewFromState

Spec == Init /\ [][Next]_vars

-----------------------------------------------------------------------------
(* What the properties below speak of.                                     *)

\* i falls inside some range of the sequence r
InRange(r, i) ==
  \E k \in 1..Len(r) :
    /\ r[k].start.n <= i
    /\ (r[k].end = Infinity \/ r[k].end.n >= i)

\* the indexes the ranges of r cover
Covered(r) == {i \in Indexes : InRange(r, i)}

\* what get(i) gives on an instance with fields f
ValueAt(f, i) == get(f, Num(i)).outcome

\* the last call is op with no index given
IsCallToAll(op) == call.op = op /\ IsNullish(call.idx)

\* the last call is op over an interval 0 <= start <= end of indexes
IsCallOnInterval(op) ==
  /\ call.op = op
  /\ IsIndex(call.start) /\ IsIndex(call.end)
  /\ call.start.n <= call.end.n

\* C1: on a freshly constructed BooleanSet, get(i) returns the boolean
\* false for every index i >= 0.
C1_FreshGetReturnsFalse ==
  (call.op = "get" /\ IsIndex(call.idx) /\ prevCall.op = "new")
    => outcome = Return(Bool(FALSE))

\* C2: in every reachable state, get(i) for an index i >= 0 returns a
\* boolean, equal to (i lies inside some stored range) XOR inverted.
C2_GetIsInRangeXorInverted ==
  (call.op = "get" /\ IsIndex(call.idx))
    => outcome = Return(Bool(InRange(pre.ranges, call.idx.n)
                             # Truthy(pre.stateInverted)))

\* C3: after set(true) with no index, from any state, get(i) is true for
\* every index i >= 0 and length() is 0.
C3_SetTrueMakesAllTrue ==
  (IsCallToAll("set") /\ call.val = Bool(TRUE))
    => /\ \A i \in Indexes : ValueAt(Fields, i) = Return(Bool(TRUE))
       /\ length(Fields).outcome = Return(Num(0))

\* C4: set(val) with no index, val a boolean, leaves the stored ranges
\* empty and the inverted flag that get reads equal to val, so that every
\* index has the value val.
C4_SetAllStoresVal ==
  (IsCallToAll("set") /\ IsBoolean(call.val))
    => /\ ranges = <<>>
       /\ stateInverted = call.val
       /\ \A i \in Indexes : ValueAt(Fields, i) = Return(call.val)

\* C5: set(val, idx) with a boolean val and an index idx >= 0 completes;
\* afterwards get(idx) is val and get(j) is unchanged for every j # idx;
\* the stored ranges gain idx when val XOR inverted, and lose it otherwise.
C5_SetIndexStoresVal ==
  (call.op = "set" /\ IsBoolean(call.val) /\ IsIndex(call.idx))
    => /\ outcome.kind = "return"
       /\ ValueAt(Fields, call.idx.n) = Return(call.val)
       /\ \A j \in Indexes \ {call.idx.n} : ValueAt(Fields, j) = ValueAt(pre, j)
       /\ Covered(ranges) =
            IF call.val.b # Truthy(pre.stateInverted)
              THEN Covered(pre.ranges) \cup {call.idx.n}
              ELSE Covered(pre.ranges) \ {call.idx.n}

\* C6: setRange(val, start, end) with 0 <= start <= end makes get(i) equal
\* to val for every i in [start, end] and leaves get(i) unchanged for every
\* i outside it.
C6_SetRangeStoresValInside ==
  (IsCallOnInterval("setRange") /\ IsBoolean(call.val))
    => \A i \in Indexes :
         IF call.start.n <= i /\ i <= call.end.n
           THEN ValueAt(Fields, i) = Return(call.val)
           ELSE ValueAt(Fields, i) = ValueAt(pre, i)

\* C7: flip() with no index negates get(i) for every index i >= 0 and
\* leaves the stored ranges unchanged.
C7_FlipAllNegatesEveryIndex ==
  (call.op = "flip" /\ call.idx = Undefined)
    => /\ \A i \in Indexes :
            /\ ValueAt(pre, i).kind = "return"
            /\ IsBoolean(ValueAt(pre, i).value)
            /\ ValueAt(Fields, i) = Return(Not(ValueAt(pre, i).value))
       /\ ranges = pre.ranges

\* C8: flipRange(start, end) over a finite interval 0 <= start <= end
\* negates get(i) for every i in the interval and leaves get(i) unchanged
\* for every i outside it.
C8_FlipRangeNegatesInside ==
  IsCallOnInterval("flipRange")
    => \A i \in Indexes :
         IF call.start.n <= i /\ i <= call.end.n
           THEN /\ ValueAt(pre, i).kind = "return"
                /\ IsBoolean(ValueAt(pre, i).value)
                /\ ValueAt(Fields, i) = Return(Not(ValueAt(pre, i).value))
           ELSE ValueAt(Fields, i) = ValueAt(pre, i)

\* C9: flipRange(a, b) applied twice in a row, 0 <= a <= b, returns the
\* set to its original values: both calls complete and get(i) after them
\* equals get(i) before them, for every i.
C9_FlipRangeTwiceIsIdentity ==
  (IsCallOnInterval("flipRange") /\ prevCall = call)
    => /\ prevOutcome.kind = "return"
       /\ outcome.kind = "return"
       /\ \A i \in Indexes : ValueAt(Fields, i) = ValueAt(prePrev, i)

\* C10: flip() applied twice in a row restores the original get(i) for
\* every i and leaves the stored ranges as they were: both calls complete,
\* and the values and the ranges after them equal those before them.
C10_FlipAllTwiceIsIdentity ==
  (call.op = "flip" /\ call.idx = Undefined /\ prevCall = call)
    => /\ prevOutcome.kind = "return"
       /\ outcome.kind = "return"
       /\ \A i \in Indexes : ValueAt(Fields, i) = ValueAt(prePrev, i)
       /\ ranges = prePrev.ranges

\* the least and the greatest element of a non-empty set of integers
Least(S) == CHOOSE x \in S : \A y \in S : x <= y
Greatest(S) == CHOOSE x \in S : \A y \in S : x >= y

\* the indexes of [lo, hi] at which an instance with fields f has value val
IndexesWith(f, val, lo, hi) == {i \in lo..hi : ValueAt(f, i) = Return(val)}

\* C11: set(val, idx), for a boolean val and an index idx >= 0, is
\* idempotent: called twice in a row, both calls complete and the second
\* leaves the values, the ranges and the flag as the first left them.
C11_SetIndexTwiceIsSetOnce ==
  (call.op = "set" /\ IsBoolean(call.val) /\ IsIndex(call.idx)
     /\ prevCall = call)
    => /\ prevOutcome.kind = "return"
       /\ outcome.kind = "return"
       /\ Fields = pre
       /\ \A i \in Indexes : ValueAt(Fields, i) = ValueAt(pre, i)

\* C12: copy() succeeds on every reachable set, a freshly constructed one
\* included, and returns a new BooleanSet with the original's ranges and
\* inverted flag, so that the copy's get(i) is the original's for every i.
C12_CopySucceedsAndAgrees ==
  call.op = "copy"
    => /\ outcome = Return(CopyRef)
       /\ copyOf.exists
       /\ copyOf.ranges = pre.ranges
       /\ copyOf.stateInverted = pre.stateInverted
       /\ \A i \in Indexes : ValueAt(copyOf, i) = ValueAt(pre, i)

\* C13: after c = s.copy() there is a second instance c that shares no
\* range collection or flag with s, so that s is as it was before the copy
\* and operations on c leave s.get(i) alone.
C13_CopyIsIndependentInstance ==
  call.op = "copy"
    => /\ outcome.kind = "return"
       /\ outcome.value # ThisRef
       /\ copyOf.exists
       /\ Fields = pre

\* C14: for a boolean v and 0 <= a <= b, allSet(v, a, b) and
\* anySet(!v, a, b) both return a boolean, and the first is true exactly
\* when the second is false.
C14_AllSetIsNoneSetOfNegation ==
  (IsCallOnInterval("allSet") /\ IsBoolean(call.val))
    => LET other == anySet(pre, Not(call.val), call.start, call.end).outcome
       IN /\ outcome.kind = "return" /\ IsBoolean(outcome.value)
          /\ other.kind = "return" /\ IsBoolean(other.value)
          /\ outcome.value.b <=> ~other.value.b

\* C15: getFirst(val, start, end) returns the smallest index of
\* [start, end] whose value is val, and null exactly when there is none.
C15_GetFirstIsSmallestIndex ==
  (IsCallOnInterval("getFirst") /\ IsBoolean(call.val))
    => LET S == IndexesWith(pre, call.val, call.start.n, call.end.n)
       IN outcome = Return(IF S = {} THEN Null ELSE Num(Least(S)))

\* C16: getLast(val, start, end) returns one of three kinds of result, an
\* index, null (val nowhere in the interval) or undefined (val forever);
\* over a finite interval it is the largest index whose value is val, and
\* null exactly when there is none.
C16_GetLastIsThreeValued ==
  (call.op = "getLast" /\ IsBoolean(call.val))
    => /\ outcome.kind = "return"
       /\ outcome.value.t \in {"number", "null", "undefined"}
       /\ IsCallOnInterval("getLast")
            => LET S == IndexesWith(pre, call.val, call.start.n, call.end.n)
               IN outcome = Return(IF S = {} THEN Null ELSE Num(Greatest(S)))

\* C17: length() returns one past the end of the last finite stored range,
\* and 0 when no ranges are stored.
C17_LengthIsPastLastRange ==
  call.op = "length"
    => LET r == pre.ranges
           finite == {k \in 1..Len(r) : r[k].end # Infinity}
       IN outcome = Return(Num(IF finite = {} THEN 0
                               ELSE r[Greatest(finite)].end.n + 1))

\* C18: toArray(start, end) with finite 0 <= start <= end returns an array
\* of length end - start (holding get(start), ..., get(end - 1)).
C18_ToArrayReturnsValues ==
  IsCallOnInterval("toArray")
    => /\ outcome.kind = "return"
       /\ outcome.value.t = "array"
       /\ outcome.value.n = call.end.n - call.start.n

\* the invariant of a range collection r: every range has
\* 0 <= start <= end (or end = Infinity), consecutive ranges satisfy
\* end1 + 1 < start2, and only the last range may be unbounded
RangeCollectionInvariant(r) ==
  /\ \A k \in 1..Len(r) :
       /\ IsIndex(r[k].start)
       /\ r[k].end = Infinity \/ (IsIndex(r[k].end) /\ r[k].start.n <= r[k].end.n)
  /\ \A k \in 1..(Len(r) - 1) :
       /\ r[k].end # Infinity
       /\ r[k].end.n + 1 < r[k + 1].start.n

\* C19: after every public operation, from any sequence of operations on a
\* fresh set, the stored ranges satisfy the invariant of a range
\* collection.
C19_RangesKeepInvariant == RangeCollectionInvariant(ranges)

\* a set(val) with no index has completed, after calls that did not
\* construct the set
C19_Witness ==
  /\ IsCallToAll("set") /\ outcome.kind = "return"
  /\ prevCall.op = "set" /\ IsIndex(prevCall.idx)
  /\ RangeCollectionInvariant(ranges)

\* C20: in every reachable state the inverted flag of the state is a
\* defined boolean, and it is false on a new set.
C20_InvertedIsBoolean ==
  /\ IsBoolean(stateInverted)
  /\ call.op = "new" => stateInverted = Bool(FALSE)

\* C21: whenever a call raises an error, the stored ranges, the inverted
\* flag and every other field of the instance are exactly as they were
\* before the call.
C21_ErrorLeavesFieldsUntouched ==
  outcome.kind = "throw" => Fields = pre

\* a mutator has raised an error on an instance an earlier call had changed
C21_Witness ==
  /\ call.op = "set" /\ outcome.kind = "throw"
  /\ pre.thisInverted = Bool(TRUE)
  /\ Fields = pre

\* the methods that take an interval
RangeOps == {"setRange", "flipRange", "getFirst", "getLast", "allSet",
             "anySet", "toArray"}

\* C22: set, allSet and anySet fail when val is not a boolean; get and
\* set(val, idx) fail when idx is negative or not an integer; the range
\* operations fail when start > end.
C22_InvalidArgumentsFail ==
  /\ (call.op \in {"set", "allSet", "anySet"} /\ ~IsBoolean(call.val))
       => outcome = AssertionError
  /\ (call.op = "get" /\ ~IsIndex(call.idx))
       => outcome = AssertionError
  /\ (call.op = "set" /\ ~IsNullish(call.idx) /\ ~IsIndex(call.idx))
       => outcome = AssertionError
  /\ (call.op \in RangeOps /\ IsIndex(call.start) /\ IsIndex(call.end)
        /\ call.start.n > call.end.n)
       => outcome.kind = "throw"

\* set has been called with a value that is not a boolean, and has failed
C22_Witness ==
  /\ call.op = "set" /\ ~IsBoolean(call.val) /\ IsNullish(call.idx)
  /\ outcome = AssertionError

C24_ValidStateConstructs ==
  (call.op = "newFromState" /\ validateState(given))
    => /\ outcome = Return(NewRef)
       /\ copyOf.exists
       /\ copyOf.ranges = given.ranges
       /\ copyOf.stateInverted = given.inverted

\* C25: clear(), from any state, makes get(i) false for every i and
\* returns this instance.
C25_ClearMakesAllFalse ==
  call.op = "clear"
    => /\ outcome = Return(ThisRef)
       /\ \A i \in Indexes : ValueAt(Fields, i) = Return(Bool(FALSE))

\* C26: flip(idx) with an index idx >= 0 does what set(!get(idx), idx)
\* does from the same state: both complete with the same fields, the value
\* at idx negated and no other index changed.
C26_FlipIndexIsSetOfNegation ==
  (call.op = "flip" /\ IsIndex(call.idx))
    => LET was == get(pre, call.idx).outcome
           byset == set(pre, Not(was.value), call.idx)
       IN /\ outcome.kind = "return"
          /\ byset.outcome.kind = "return"
          /\ Fields = byset.fields
          /\ ValueAt(Fields, call.idx.n) = Return(Not(was.value))
          /\ \A j \in Indexes \ {call.idx.n} :
               ValueAt(Fields, j) = ValueAt(pre, j)

\* C27: flipRange over the whole domain (start 0 or omitted, end omitted)
\* does what flip() does: it toggles the inverted flag and leaves the
\* stored ranges unchanged.
C27_FlipWholeDomainIsFlipAll ==
  (call.op = "flipRange" /\ call.start \in {Undefined, Num(0)}
     /\ call.end = Undefined)
    => /\ outcome.kind = "return"
       /\ stateInverted = Not(pre.stateInverted)
       /\ ranges = pre.ranges
       /\ Fields = flip(pre, Undefined).fields

\* C28: removing [1, 1] from the unbounded range [0, Infinity] that
\* setRange(true, 0) stored on a fresh set splits it into [0, 0] and the
\* unbounded [2, Infinity], so that every index above 1 stays covered.
C28_RemoveInsideSplitsRange ==
  (/\ prevCall = Call("setRange", Bool(TRUE), Undefined, Num(0), Undefined)
   /\ call = Call("setRange", Bool(FALSE), Undefined, Num(1), Num(1))
   /\ prePrev.ranges = <<>> /\ ~Truthy(prePrev.stateInverted))
    => /\ prevOutcome.kind = "return"
       /\ outcome.kind = "return"
       /\ pre.ranges = <<Range(Num(0), Infinity)>>
       /\ ranges = <<Range(Num(0), Num(0)), Range(Num(2), Infinity)>>

\* the methods that only ask
QueryOps == {"get", "getFirst", "getLast", "allSet", "anySet", "toArray",
             "length", "copy", "getState"}

\* C29: get, getFirst, getLast, allSet, anySet, toArray, length, copy and
\* getState leave the stored ranges, the inverted flag and every other
\* field unchanged, whether they return or raise an error.
C29_QueriesDoNotMutate ==
  call.op \in QueryOps => Fields = pre

\* get has returned on an instance an earlier call had changed
C29_Witness ==
  /\ call.op = "get" /\ outcome.kind = "return"
  /\ pre.thisInverted = Bool(TRUE)
  /\ Fields = pre

\* C30: for a boolean val and an index a >= 0, allSet(val, a, a) and
\* anySet(val, a, a) both return the boolean (get(a) == val).
C30_PointQueriesAgree ==
  (call.op = "allSet" /\ IsBoolean(call.val) /\ IsIndex(call.start)
     /\ call.end = call.start)
    => LET any == anySet(pre, call.val, call.start, call.end).outcome
           at == get(pre, call.start).outcome
       IN /\ outcome.kind = "return"
          /\ any.kind = "return"
          /\ at.kind = "return"
          /\ outcome.value = any.value
          /\ outcome.value = Bool(at.value = call.val)

====
